---------------------------- MODULE Spec2Model ----------------------------
(***************************************************************************)
(* A model of the pixi8-motion-blur-demo repository: of its geometry/math  *)
(* helper module (helpers.ts: binarySearch, SortedMap, the change tracker, *)
(* clampToRect, calculateRatioDimensions, aspectRatioOf, resizeRectToFit), *)
(* of the layout effect of PixiApp (App.tsx) and of MotionBlurFilter.      *)
(*                                                                         *)
(* Each component has its own specification (SpecMap, SpecSearch, ...)     *)
(* over its own variables; the variables of the other components stay at   *)
(* their idle values.  JavaScript arrays are 0-based, TLA+ sequences are   *)
(* 1-based: the array element a[i] is the sequence element a[i + 1].       *)
(***************************************************************************)
EXTENDS Integers, Sequences, FiniteSets, TLC

VARIABLES
    map,          \* SortedMap.map: the mapping from key to value
    sortedKeys,   \* SortedMap.sortedKeys: the key sequence
    call,         \* the last SortedMap method called, with its arguments
    ret,          \* what that call returned
    search,       \* binarySearch: its arguments and its outcome
    tracker,      \* createChangeTracker: trueOnFirstCall and previousArgs
    check,        \* the last call of checkArgs: its arguments and its result
    clamp,        \* clampToRect: its arguments and its results
    ratio,        \* calculateRatioDimensions: its arguments and its outcome
    aspect,       \* aspectRatioOf: its arguments, the gcd recursion, its result
    fit,          \* resizeRectToFit: its arguments and its result
    effects,      \* PixiApp: the runs of its layout effect, each with its closure
    children,     \* the runs whose app.canvas is a child of the container div
    handlers,     \* the runs whose updateFilter handler is bound on the bus $
    points,       \* the heap of velocity objects { x, y }, by reference
    filters       \* the MotionBlurFilter objects: uniforms, _kernelSize, padding

mapVars == <<map, sortedKeys, call, ret>>
trackerVars == <<tracker, check>>
appVars == <<effects, children, handlers>>
filterVars == <<points, filters>>
vars == <<map, sortedKeys, call, ret, search, tracker, check, clamp, ratio, aspect, fit,
          effects, children, handlers, points, filters>>

\* What each component leaves alone: the variables of the other components.
mapOthers == <<search, tracker, check, clamp, ratio, aspect, fit, appVars,
                filterVars>>
searchOthers == <<mapVars, tracker, check, clamp, ratio, aspect, fit, appVars,
                   filterVars>>
trackerOthers == <<mapVars, search, clamp, ratio, aspect, fit, appVars,
                    filterVars>>
clampOthers == <<mapVars, search, tracker, check, ratio, aspect, fit, appVars,
                  filterVars>>
ratioOthers == <<mapVars, search, tracker, check, clamp, aspect, fit, appVars,
                  filterVars>>
aspectOthers == <<mapVars, search, tracker, check, clamp, ratio, fit, appVars,
                   filterVars>>
fitOthers == <<mapVars, search, tracker, check, clamp, ratio, aspect, appVars,
                filterVars>>
appOthers == <<mapVars, search, tracker, check, clamp, ratio, aspect, fit, filterVars>>
filterOthers == <<mapVars, search, tracker, check, clamp, ratio, aspect, fit, appVars>>

\* A component that is not in use.
Idle == [pc |-> "idle"]

\* JavaScript values of more than one type are tagged records: undefined, a
\* value of the map's value type T, a boolean.
undefined == [type |-> "undefined"]

ValueOf(v) == [type |-> "value", value |-> v]

BoolOf(b) == [type |-> "boolean", bool |-> b]

(***************************************************************************)
(* Bounds of the model.                                                    *)
(***************************************************************************)
MaxKey == 3
Keys == 0 .. MaxKey
Values == {"a", "b"}
Targets == -1 .. MaxKey + 1

(***************************************************************************)
(* JavaScript numbers given as an explicit low or high bound.  A number n  *)
(* is written n = q * 2^32 + r with r in the signed 32-bit range, and is   *)
(* the record [q |-> q, r |-> r]; the numbers of the model have a small r. *)
(* The 32-bit coercion n | 0 (ToInt32) keeps r and drops q.                *)
(***************************************************************************)
Num(q, r) == [q |-> q, r |-> r]

ToInt32(n) == n.r

\* a[i] of a JavaScript array, for i in 0 .. length - 1.
At(a, i) == a[i + 1]

\* Math.abs on integers.
Abs(n) == IF n < 0 THEN -n ELSE n

\* A slip: the negation -n in place of the complement ~n.
BitNotAsNegation(n) == -n

\* ~n on a 32-bit integer.
BitNot(n) == -(n + 1)

(***************************************************************************)
(* binarySearch                                                            *)
(***************************************************************************)
\* The comparator (a, b) => a - b.
Comparator(a, b) == a - b

Returned(v, n) == [kind |-> "return", value |-> v, cmps |-> n]

Thrown(msg) == [kind |-> "RangeError", value |-> msg, cmps |-> 0]

\* The while loop of binarySearch; n counts the comparator's invocations.
RECURSIVE SearchLoop(_, _, _, _, _)
SearchLoop(haystack, needle, low, high, n) ==
    IF low <= high
    THEN LET mid == low + ((high - low) \div 2)
             cmp == Comparator(At(haystack, mid), needle)
         IN  IF cmp < 0 THEN SearchLoop(haystack, needle, mid + 1, high, n + 1)
             ELSE IF cmp > 0 THEN SearchLoop(haystack, needle, low, mid - 1, n + 1)
             ELSE Returned(mid, n + 1)
    ELSE Returned(BitNot(low), n)

\* binarySearch(haystack, needle, comparator, low?, high?): low and high are
\* undefined or a number.
binarySearch(haystack, needle, low, high) ==
    LET lo == IF low = undefined THEN 0 ELSE ToInt32(low)
        hi == IF high = undefined THEN Len(haystack) - 1 ELSE ToInt32(high)
    IN  IF low # undefined /\ (lo < 0 \/ lo >= Len(haystack))
        THEN Thrown("invalid lower bound")
        ELSE IF high # undefined /\ (hi < lo \/ hi >= Len(haystack))
        THEN Thrown("invalid upper bound")
        ELSE SearchLoop(haystack, needle, lo, hi, 0)

(***************************************************************************)
(* SortedMap                                                               *)
(***************************************************************************)
\* Array.prototype.sort with the comparator (a, b) => a - b: a stable sort,
\* here by insertion.
RECURSIVE Insert(_, _)
Insert(sorted, x) ==
    IF sorted = <<>> THEN <<x>>
    ELSE IF Comparator(sorted[Len(sorted)], x) > 0
         THEN Append(Insert(SubSeq(sorted, 1, Len(sorted) - 1), x), sorted[Len(sorted)])
         ELSE Append(sorted, x)

\* A slip: the pushed key is left where it is.
SortSkipped(a) == a

RECURSIVE Sort(_)
Sort(a) ==
    IF a = <<>> THEN <<>>
    ELSE Insert(Sort(SubSeq(a, 1, Len(a) - 1)), a[Len(a)])

\* Map.prototype.get
MapGet(m, key) == IF key \in DOMAIN m THEN ValueOf(m[key]) ELSE undefined

\* A slip: the set stores the value under every key of the mapping.
MapSetUnderEveryKey(m, key, value) == [k \in DOMAIN m \cup {key} |-> value]

\* Map.prototype.set
MapSet(m, key, value) == [k \in DOMAIN m \cup {key} |-> IF k = key THEN value ELSE m[k]]

EmptyMap == [k \in {} |-> "a"]

\* A slip: the insertion point itself in place of the index before it.
findNearestAtInsertionPoint(m, keys, targetKey) ==
    LET index == binarySearch(keys, targetKey, undefined, undefined).value
        keyIndex == IF index < 0 THEN Abs(index) - 1 ELSE index
    IN  IF keyIndex >= 0 /\ keyIndex < Len(keys)
        THEN MapGet(m, At(keys, keyIndex))
        ELSE undefined

\* SortedMap.findNearest.  sortedKeys[keyIndex] is undefined when keyIndex is
\* outside of the array, and undefined is no key of the map: get returns
\* undefined.
findNearest(m, keys, targetKey) ==
    LET index == binarySearch(keys, targetKey, undefined, undefined).value
        keyIndex == IF index < 0 THEN Abs(index) - 2 ELSE index
    IN  IF keyIndex >= 0 /\ keyIndex < Len(keys)
        THEN MapGet(m, At(keys, keyIndex))
        ELSE undefined

\* new SortedMap()
MapNew ==
    /\ map = EmptyMap
    /\ sortedKeys = <<>>
    /\ call = [op |-> "new"]
    /\ ret = undefined

\* SortedMap.set(key, value)
Set(key, value) ==
    /\ sortedKeys' = IF key \notin DOMAIN map
                     THEN Sort(Append(sortedKeys, key))
                     ELSE sortedKeys
    /\ map' = MapSet(map, key, value)
    /\ call' = [op |-> "set", key |-> key, value |-> value]
    /\ ret' = undefined
    /\ UNCHANGED mapOthers

\* SortedMap.findNearest(targetKey)
FindNearest(targetKey) ==
    /\ call' = [op |-> "findNearest", key |-> targetKey]
    /\ ret' = findNearest(map, sortedKeys, targetKey)
    /\ UNCHANGED <<map, sortedKeys>>
    /\ UNCHANGED mapOthers

\* SortedMap.has(key)
Has(key) ==
    /\ call' = [op |-> "has", key |-> key]
    /\ ret' = BoolOf(key \in DOMAIN map)
    /\ UNCHANGED <<map, sortedKeys>>
    /\ UNCHANGED mapOthers

\* SortedMap.clear()
Clear ==
    /\ map' = EmptyMap
    /\ sortedKeys' = <<>>
    /\ call' = [op |-> "clear"]
    /\ ret' = undefined
    /\ UNCHANGED mapOthers

(***************************************************************************)
(* binarySearch called on its own                                          *)
(***************************************************************************)
MaxLen == 4
MaxElement == 7
Elements == 1 .. MaxElement

\* The strictly ascending sequences over Elements of at most MaxLen elements.
RECURSIVE SeqOfSet(_)
SeqOfSet(S) ==
    IF S = {} THEN <<>>
    ELSE LET m == CHOOSE x \in S : \A y \in S : x <= y
         IN  <<m>> \o SeqOfSet(S \ {m})

Haystacks == {SeqOfSet(S) : S \in {T \in SUBSET Elements : Cardinality(T) <= MaxLen}}

Needles == 0 .. MaxElement + 1

\* Explicit bounds: small numbers, and numbers 2^32 away from them.
Bounds == {undefined} \cup {Num(q, r) : q \in {-1, 0, 1}, r \in -1 .. MaxLen}

SearchInit ==
    \E h \in Haystacks, n \in Needles, lo \in Bounds, hi \in Bounds :
        search = [pc |-> "call", haystack |-> h, needle |-> n, low |-> lo, high |-> hi]

\* The call binarySearch(haystack, needle, (a, b) => a - b, low, high).
BinarySearch ==
    /\ search.pc = "call"
    /\ search' = [search EXCEPT !.pc = "done"] @@
                 [out |-> binarySearch(search.haystack, search.needle,
                                       search.low, search.high)]
    /\ UNCHANGED searchOthers

(***************************************************************************)
(* createChangeTracker                                                     *)
(***************************************************************************)
MaxArgs == 2
MaxNumber == 3

\* The arguments are numbers and objects.  An object is a reference: id is
\* its identity, x the value of its one property.  Objects 1 and 2 are two
\* objects { x: 1 }, object 3 is { x: 2 }.
NumberOf(n) == [type |-> "number", n |-> n]

ObjectOf(id, x) == [type |-> "object", id |-> id, x |-> x]

ArrayOf(items) == [type |-> "array", items |-> items]

Objects == {ObjectOf(1, 1), ObjectOf(2, 1), ObjectOf(3, 2)}

ArgValues == {NumberOf(n) : n \in 1 .. MaxNumber} \cup Objects

ArgLists == UNION {[1 .. n -> ArgValues] : n \in 0 .. MaxArgs}

\* A slip: equality of references (===) in place of deep equality.
deepEqualByReference(a, b) == a = b

\* deepEqual of fast-equals on numbers, objects { x } and arrays of them.
RECURSIVE deepEqual(_, _)
deepEqual(a, b) ==
    IF a.type # b.type THEN FALSE
    ELSE IF a.type = "number" THEN a.n = b.n
    ELSE IF a.type = "object" THEN a.x = b.x
    ELSE /\ Len(a.items) = Len(b.items)
         /\ \A i \in 1 .. Len(a.items) : deepEqual(a.items[i], b.items[i])

\* A slip, the behaviour the doc comment words: false when the arguments do
\* not match the previous ones.
checkArgsAsDocumented(t, args) ==
    IF t.previousArgs = undefined
    THEN [ret |-> t.trueOnFirstCall, previousArgs |-> args]
    ELSE IF deepEqual(args, t.previousArgs)
         THEN [ret |-> TRUE, previousArgs |-> t.previousArgs]
         ELSE [ret |-> FALSE, previousArgs |-> args]

\* checkArgs(...args) in the closure t: what it returns and the previousArgs
\* it leaves.  An array is never falsy, so !previousArgs holds exactly before
\* the first call.
checkArgs(t, args) ==
    IF t.previousArgs = undefined
    THEN [ret |-> t.trueOnFirstCall, previousArgs |-> args]
    ELSE IF deepEqual(args, t.previousArgs)
         THEN [ret |-> FALSE, previousArgs |-> t.previousArgs]
         ELSE [ret |-> TRUE, previousArgs |-> args]

\* createChangeTracker(trueOnFirstCall)
CreateChangeTracker ==
    /\ \E trueOnFirstCall \in BOOLEAN :
           tracker = [trueOnFirstCall |-> trueOnFirstCall, previousArgs |-> undefined]
    /\ check = Idle

\* A call checkArgs(...args).  check records the call: its arguments, the
\* previousArgs it found, what it returned.
CheckArgs(args) ==
    LET out == checkArgs(tracker, ArrayOf(args))
    IN  /\ tracker' = [tracker EXCEPT !.previousArgs = out.previousArgs]
        /\ check' = [pc |-> "returned", args |-> ArrayOf(args),
                      before |-> tracker.previousArgs, ret |-> out.ret]
        /\ UNCHANGED trackerOthers

(***************************************************************************)
(* clampToRect                                                             *)
(***************************************************************************)
MaxCoord == 3
MaxSize == 2

Points == [x : -1 .. MaxCoord, y : -1 .. MaxCoord]

\* Rect: width and height are not enforced to be non-negative.
Rects == [x : 0 .. 1, y : 0 .. 1, width : -MaxSize .. MaxSize, height : -MaxSize .. MaxSize]

\* clamp(value, { min, max }) of remeda: the lower limit is tested first.
clampValue(value, min, max) ==
    IF value < min THEN min
    ELSE IF value > max THEN max
    ELSE value

\* A slip: the upper limits without the rectangle's origin.
clampToRectWithoutOrigin(a, rect) ==
    IF /\ a.x >= rect.x /\ a.x <= rect.x + rect.width
       /\ a.y >= rect.y /\ a.y <= rect.y + rect.height
    THEN a
    ELSE [x |-> clampValue(a.x, rect.x, rect.width),
          y |-> clampValue(a.y, rect.y, rect.height)]

\* clampToRect(a, { width, height, x: rx, y: ry })
clampToRect(a, rect) ==
    IF /\ a.x >= rect.x /\ a.x <= rect.x + rect.width
       /\ a.y >= rect.y /\ a.y <= rect.y + rect.height
    THEN a
    ELSE [x |-> clampValue(a.x, rect.x, rect.x + rect.width),
          y |-> clampValue(a.y, rect.y, rect.y + rect.height)]

ClampInit ==
    \E a \in Points, rect \in Rects : clamp = [pc |-> "call", a |-> a, rect |-> rect]

\* once = clampToRect(a, rect)
ClampToRect ==
    /\ clamp.pc = "call"
    /\ clamp' = [clamp EXCEPT !.pc = "once"] @@ [once |-> clampToRect(clamp.a, clamp.rect)]
    /\ UNCHANGED clampOthers

\* twice = clampToRect(once, rect)
ClampToRectAgain ==
    /\ clamp.pc = "once"
    /\ clamp' = [clamp EXCEPT !.pc = "twice"] @@ [twice |-> clampToRect(clamp.once, clamp.rect)]
    /\ UNCHANGED clampOthers

(***************************************************************************)
(* aspectRatioOf                                                           *)
(***************************************************************************)
MaxDim == 12

\* Positive integer widths and heights: the small ones, and 1920 x 1080.
Dims == (1 .. MaxDim) \cup {1080, 1920}

\* A slip: gcd(a % b, b), the divisor kept as second argument.
gcdArgsKeepingDivisor(a, b) == [a |-> a % b, b |-> b]

\* The arguments of the recursive call gcd(b, a % b).
gcdArgs(a, b) == [a |-> b, b |-> a % b]

AspectInit ==
    \E width \in Dims, height \in Dims :
        aspect = [pc |-> "call", width |-> width, height |-> height]

\* aspectRatioOf(width, height) calls gcd(width, height); depth counts the
\* recursive calls of gcd.
AspectRatioOf ==
    /\ aspect.pc = "call"
    /\ aspect' = [aspect EXCEPT !.pc = "gcd"] @@
                 [a |-> aspect.width, b |-> aspect.height, depth |-> 0]
    /\ UNCHANGED aspectOthers

\* gcd(a, b) with b !== 0: the recursive call gcd(b, a % b).
GcdRecurse ==
    /\ aspect.pc = "gcd"
    /\ aspect.b # 0
    /\ aspect' = [aspect EXCEPT !.a = gcdArgs(aspect.a, aspect.b).a,
                                 !.b = gcdArgs(aspect.a, aspect.b).b,
                                 !.depth = @ + 1]
    /\ UNCHANGED aspectOthers

\* gcd(a, b) with b === 0 returns a, the divisor; aspectRatioOf returns
\* [width / divisor, height / divisor].  The divisions leave no remainder
\* when the divisor divides width and height.
GcdReturn ==
    /\ aspect.pc = "gcd"
    /\ aspect.b = 0
    /\ aspect' = [pc |-> "done", width |-> aspect.width, height |-> aspect.height,
                  divisor |-> aspect.a,
                  result |-> <<aspect.width \div aspect.a, aspect.height \div aspect.a>>]
    /\ UNCHANGED aspectOthers

(***************************************************************************)
(* JavaScript numbers that are not integers.  A number is an IEEE 754       *)
(* double: zero, infinity, NaN, or a positive finite number m * 2^e with a  *)
(* significand m of exactly Precision bits (the numbers of the model are    *)
(* not negative, and their exponents stay far from the ends of the          *)
(* exponent range).  Division and multiplication round to nearest, ties to  *)
(* even, and tell whether they rounded.                                     *)
(*                                                                         *)
(* A significand does not fit an integer of the model checker: a natural   *)
(* number of any size is the sequence of its digits in base Base, the      *)
(* least significant first, without leading zero digit.                    *)
(***************************************************************************)
Precision == 53
Base == 2 ^ 14

RECURSIVE NatOf(_)
NatOf(n) == IF n = 0 THEN <<>> ELSE <<n % Base>> \o NatOf(n \div Base)

RECURSIVE Strip(_)
Strip(a) ==
    IF a # <<>> /\ a[Len(a)] = 0 THEN Strip(SubSeq(a, 1, Len(a) - 1)) ELSE a

Digit(a, i) == IF i <= Len(a) THEN a[i] ELSE 0

RECURSIVE AddFrom(_, _, _, _)
AddFrom(a, b, i, carry) ==
    IF i > Len(a) /\ i > Len(b)
    THEN IF carry = 0 THEN <<>> ELSE <<carry>>
    ELSE LET t == Digit(a, i) + Digit(b, i) + carry
         IN  <<t % Base>> \o AddFrom(a, b, i + 1, t \div Base)

NatAdd(a, b) == AddFrom(a, b, 1, 0)

RECURSIVE SubFrom(_, _, _, _)
SubFrom(a, b, i, borrow) ==
    IF i > Len(a) THEN <<>>
    ELSE LET t == Digit(a, i) - Digit(b, i) - borrow
         IN  <<(t + Base) % Base>> \o SubFrom(a, b, i + 1, IF t < 0 THEN 1 ELSE 0)

\* a - b, for a >= b
NatSub(a, b) == Strip(SubFrom(a, b, 1, 0))

RECURSIVE LessFrom(_, _, _)
LessFrom(a, b, i) ==
    IF i = 0 THEN FALSE
    ELSE IF a[i] # b[i] THEN a[i] < b[i]
    ELSE LessFrom(a, b, i - 1)

NatLess(a, b) == IF Len(a) # Len(b) THEN Len(a) < Len(b) ELSE LessFrom(a, b, Len(a))

RECURSIVE ScaleFrom(_, _, _, _)
ScaleFrom(a, d, i, carry) ==
    IF i > Len(a)
    THEN IF carry = 0 THEN <<>> ELSE <<carry>>
    ELSE LET t == a[i] * d + carry
         IN  <<t % Base>> \o ScaleFrom(a, d, i + 1, t \div Base)

RECURSIVE MulFrom(_, _, _)
MulFrom(a, b, i) ==
    IF i > Len(b) THEN <<>>
    ELSE NatAdd(ScaleFrom(a, b[i], 1, 0), <<0>> \o MulFrom(a, b, i + 1))

NatMul(a, b) == Strip(MulFrom(a, b, 1))

NatDouble(a) == NatAdd(a, a)

\* The quotient of a by the small number d, from digit i of a down; r is the
\* remainder of the digits above.
RECURSIVE QuotientFrom(_, _, _, _)
QuotientFrom(a, d, i, r) ==
    IF i = 0 THEN <<>>
    ELSE LET t == r * Base + a[i]
         IN  Append(QuotientFrom(a, d, i - 1, t % d), t \div d)

NatHalf(a) == Strip(QuotientFrom(a, 2, Len(a), 0))

NatOdd(a) == a # <<>> /\ a[1] % 2 = 1

RECURSIVE SmallBits(_)
SmallBits(n) == IF n = 0 THEN 0 ELSE 1 + SmallBits(n \div 2)

DigitBits == SmallBits(Base - 1)

BitLength(a) == IF a = <<>> THEN 0 ELSE (Len(a) - 1) * DigitBits + SmallBits(a[Len(a)])

\* Bit i of a, bit 1 the least significant.
Bit(a, i) == (a[(i - 1) \div DigitBits + 1] \div (2 ^ ((i - 1) % DigitBits))) % 2

Zeros(k) == [i \in 1 .. k |-> 0]

\* a * 2^k
ShiftLeft(a, k) ==
    IF a = <<>> THEN <<>>
    ELSE Zeros(k \div DigitBits) \o ScaleFrom(a, 2 ^ (k % DigitBits), 1, 0)

\* a \div 2^k
ShiftRight(a, k) ==
    LET high == SubSeq(a, k \div DigitBits + 1, Len(a))
    IN  Strip(QuotientFrom(high, 2 ^ (k % DigitBits), Len(high), 0))

\* a without its k lowest bits (k >= 1); guard is the highest bit dropped,
\* sticky tells whether a lower one was set.
DropBits(a, k, more) ==
    [n |-> ShiftRight(a, k),
     guard |-> Bit(a, k) = 1,
     sticky |-> more \/ \E i \in 1 .. k - 1 : Bit(a, i) = 1]

\* a * d for a small number d
NatScale(a, d) == Strip(ScaleFrom(a, d, 1, 0))

\* The greatest digit q in lo .. hi with q * d <= r.
RECURSIVE QuotientDigit(_, _, _, _)
QuotientDigit(r, d, lo, hi) ==
    IF lo = hi THEN lo
    ELSE LET mid == (lo + hi + 1) \div 2
         IN  IF NatLess(r, NatScale(d, mid))
             THEN QuotientDigit(r, d, lo, mid - 1)
             ELSE QuotientDigit(r, d, mid, hi)

\* Quotient and remainder by d of n without its i - 1 lowest digits, by long
\* division, one digit of n at a time.
RECURSIVE DivFrom(_, _, _)
DivFrom(n, d, i) ==
    IF i > Len(n) THEN [q |-> <<>>, r |-> <<>>]
    ELSE LET above == DivFrom(n, d, i + 1)
             r2 == Strip(<<n[i]>> \o above.r)
             digit == QuotientDigit(r2, d, 0, Base - 1)
         IN  [q |-> Strip(<<digit>> \o above.q),
              r |-> NatSub(r2, NatScale(d, digit))]

NatDivMod(n, d) == DivFrom(n, d, 1)

Zero == [kind |-> "zero"]
Infinity == [kind |-> "infinity"]
NaN == [kind |-> "nan"]
Finite(m, e) == [kind |-> "finite", m |-> m, e |-> e]

Rounded(v, inexact) == [v |-> v, inexact |-> inexact]

\* The double nearest to n * 2^e (n > 0), ties to even; more says that the
\* number to round is a little more than n * 2^e (less than one unit of n
\* more; n then has more than Precision + 1 bits).
Round(n, e, more) ==
    LET length == BitLength(n)
    IN  IF length <= Precision
        THEN Rounded(Finite(ShiftLeft(n, Precision - length), e - (Precision - length)),
                     more)
        ELSE LET d == DropBits(n, length - Precision, more)
                 up == d.guard /\ (d.sticky \/ NatOdd(d.n))
                 m == IF up THEN NatAdd(d.n, <<1>>) ELSE d.n
             IN  Rounded(IF BitLength(m) > Precision
                         THEN Finite(NatHalf(m), e + length - Precision + 1)
                         ELSE Finite(m, e + length - Precision),
                         d.guard \/ d.sticky)

\* The number n, an integer >= 0 small enough to be exact.
FromInt(n) == IF n = 0 THEN Zero ELSE Round(NatOf(n), 0, FALSE).v

\* x / y
FDiv(x, y) ==
    IF x.kind = "nan" \/ y.kind = "nan" THEN Rounded(NaN, FALSE)
    ELSE IF x.kind = "zero"
         THEN Rounded(IF y.kind = "zero" THEN NaN ELSE Zero, FALSE)
    ELSE IF x.kind = "infinity"
         THEN Rounded(IF y.kind = "infinity" THEN NaN ELSE Infinity, FALSE)
    ELSE IF y.kind = "zero" THEN Rounded(Infinity, FALSE)
    ELSE IF y.kind = "infinity" THEN Rounded(Zero, FALSE)
    ELSE LET d == NatDivMod(ShiftLeft(x.m, Precision + 2), y.m)
         IN  Round(d.q, x.e - y.e - (Precision + 2), d.r # <<>>)

\* x * y
FMul(x, y) ==
    IF x.kind = "nan" \/ y.kind = "nan" THEN Rounded(NaN, FALSE)
    ELSE IF x.kind = "zero"
         THEN Rounded(IF y.kind = "infinity" THEN NaN ELSE Zero, FALSE)
    ELSE IF y.kind = "zero"
         THEN Rounded(IF x.kind = "infinity" THEN NaN ELSE Zero, FALSE)
    ELSE IF x.kind = "infinity" \/ y.kind = "infinity" THEN Rounded(Infinity, FALSE)
    ELSE Round(NatMul(x.m, y.m), x.e + y.e, FALSE)

\* x < y, for numbers other than NaN
FLess(x, y) ==
    IF x.kind = "infinity" \/ y.kind = "zero" THEN FALSE
    ELSE IF x.kind = "zero" \/ y.kind = "infinity" THEN TRUE
    ELSE x.e < y.e \/ (x.e = y.e /\ NatLess(x.m, y.m))

\* A slip: the greater scale (fill) in place of the smaller (fit).
FMinAsMax(x, y) ==
    IF x.kind = "nan" \/ y.kind = "nan" THEN NaN
    ELSE IF FLess(y, x) THEN x ELSE y

\* Math.min(x, y)
FMin(x, y) ==
    IF x.kind = "nan" \/ y.kind = "nan" THEN NaN
    ELSE IF FLess(y, x) THEN y ELSE x

(***************************************************************************)
(* resizeRectToFit                                                         *)
(***************************************************************************)
MaxFit == 3

\* Positive widths and heights: the small ones, and 19, 21, 100 and 200.
FitDims == (1 .. MaxFit) \cup {19, 21, 100, 200}

Dimensions == [width : FitDims, height : FitDims]

\* resizeRectToFit(rect1, rect2) on dimensions that are integers; inexact
\* tells whether one of its two divisions and two multiplications rounded.
resizeRectToFit(rect1, rect2) ==
    LET byWidth == FDiv(FromInt(rect2.width), FromInt(rect1.width))
        byHeight == FDiv(FromInt(rect2.height), FromInt(rect1.height))
        scale == FMin(byWidth.v, byHeight.v)
        width == FMul(FromInt(rect1.width), scale)
        height == FMul(FromInt(rect1.height), scale)
    IN  [value |-> [width |-> width.v, height |-> height.v],
         inexact |-> \/ byWidth.inexact \/ byHeight.inexact
                     \/ width.inexact \/ height.inexact]

FitInit ==
    \E rect1 \in Dimensions, rect2 \in Dimensions :
        fit = [pc |-> "call", rect1 |-> rect1, rect2 |-> rect2]

\* The call resizeRectToFit(rect1, rect2).
ResizeRectToFit ==
    /\ fit.pc = "call"
    /\ LET out == resizeRectToFit(fit.rect1, fit.rect2)
       IN  fit' = [fit EXCEPT !.pc = "done"] @@
                  [result |-> out.value, inexact |-> out.inexact]
    /\ UNCHANGED fitOthers

(***************************************************************************)
(* calculateRatioDimensions                                                *)
(***************************************************************************)
MaxRatioLength == 5

\* The characters of the ratio strings: two digits, the colon, and a
\* character that is no part of a number.
Chars == {"3", "4", ":", "x"}

Strings == UNION {[1 .. n -> Chars] : n \in 0 .. MaxRatioLength}

\* aspectRatio.split(":"): the parts between the colons; the empty string
\* has one part, the empty string.
RECURSIVE Split(_)
Split(str) ==
    IF \A i \in 1 .. Len(str) : str[i] # ":" THEN <<str>>
    ELSE LET colon == CHOOSE i \in 1 .. Len(str) :
                          str[i] = ":" /\ \A j \in 1 .. i - 1 : str[j] # ":"
         IN  <<SubSeq(str, 1, colon - 1)>> \o Split(SubSeq(str, colon + 1, Len(str)))

DigitValue(c) == IF c = "3" THEN 3 ELSE 4

RECURSIVE Decimal(_)
Decimal(str) ==
    IF str = <<>> THEN 0
    ELSE 10 * Decimal(SubSeq(str, 1, Len(str) - 1)) + DigitValue(str[Len(str)])

\* Number(part): 0 for the empty string, NaN for what is no number.
Number(str) ==
    IF \E i \in 1 .. Len(str) : str[i] = "x" THEN NaN
    ELSE FromInt(Decimal(str))

\* resizeRectToFitAspectRatio(rect1, aspectRatio)
resizeRectToFitAspectRatio(rect1, aspectRatio) ==
    LET newHeight == FMin(FDiv(rect1.width, aspectRatio).v, rect1.height)
    IN  [width |-> FMul(aspectRatio, newHeight).v, height |-> newHeight]

\* calculateRatioDimensions(width, height, aspectRatio)
calculateRatioDimensions(width, height, aspectRatio) ==
    LET parts == Split(aspectRatio)
    IN  IF Len(parts) < 2
        THEN [kind |-> "Error", message |-> "aspectRatio must be in format of a:b"]
        ELSE LET antecedent == Number(parts[1])
                 consequent == Number(parts[2])
                 ratioOf == FDiv(antecedent, consequent).v
             IN  [kind |-> "return",
                  value |-> resizeRectToFitAspectRatio(
                                [width |-> FromInt(width), height |-> FromInt(height)],
                                ratioOf)]

RatioInit ==
    \E aspectRatio \in Strings :
        ratio = [pc |-> "call", width |-> 1920, height |-> 1080,
                 aspectRatio |-> aspectRatio]

\* The call calculateRatioDimensions(width, height, aspectRatio).
CalculateRatioDimensions ==
    /\ ratio.pc = "call"
    /\ ratio' = [ratio EXCEPT !.pc = "done"] @@
                [out |-> calculateRatioDimensions(ratio.width, ratio.height,
                                                  ratio.aspectRatio)]
    /\ UNCHANGED ratioOthers

(***************************************************************************)
(* PixiApp: the layout effect of App.tsx                                   *)
(*                                                                         *)
(* Each run of the effect has its own closure (appInitialized, abort, app, *)
(* unsub) and its own promise chain:                                       *)
(*   outer   = new Promise(...)      rejected by abort, settled by init    *)
(*   built   = outer.then(buildStage)                                      *)
(*   shown   = built.then(render, append, appInitialized = true)           *)
(*   caught  = shown.catch(() => {})                                       *)
(* Every reaction of a promise is a job of its own; the cleanup, which     *)
(* React calls when the options change or the component unmounts, can run  *)
(* between any two jobs.  React runs the effect again only after the       *)
(* cleanup of the run before.  The container div is rendered by the        *)
(* component, so dom is not null in the effect.                            *)
(***************************************************************************)
MaxEffects == 2
Runs == 1 .. MaxEffects

Settled == {"fulfilled", "rejected"}

\* The closure of a run before its effect has run.
NewEffect ==
    [pc |-> "unmounted",
     init |-> "pending", forwarded |-> FALSE,
     outer |-> "pending", built |-> "pending", shown |-> "pending",
     caught |-> "pending",
     appInitialized |-> FALSE, aborted |-> FALSE, unsub |-> "noop",
     updated |-> FALSE, removed |-> FALSE, destroyed |-> FALSE]

AppInit ==
    /\ effects = [i \in Runs |-> NewEffect]
    /\ children = {}
    /\ handlers = {}

\* The effect runs: the closure is created, the executor of the outer
\* promise listens to abort and calls app.init(options), the chain is built.
Effect(i) ==
    /\ effects[i].pc = "unmounted"
    /\ \A j \in 1 .. i - 1 : effects[j].pc = "cleaned"
    /\ effects' = [effects EXCEPT ![i].pc = "mounted"]
    /\ UNCHANGED <<children, handlers>>
    /\ UNCHANGED appOthers

\* app.init(options) settles; an abort does not stop it.
AppInitSettles(i, outcome) ==
    /\ effects[i].pc # "unmounted"
    /\ effects[i].init = "pending"
    /\ effects' = [effects EXCEPT ![i].init = outcome]
    /\ UNCHANGED <<children, handlers>>
    /\ UNCHANGED appOthers

\* The reaction .then(resolve, reject) of app.init: it settles the outer
\* promise unless the abort has rejected it.
Forward(i) ==
    /\ effects[i].init \in Settled
    /\ ~effects[i].forwarded
    /\ effects' = [effects EXCEPT
                      ![i].forwarded = TRUE,
                      ![i].outer = IF @ = "pending" THEN effects[i].init ELSE @]
    /\ UNCHANGED <<children, handlers>>
    /\ UNCHANGED appOthers

\* The reaction .then(buildStage) of the outer promise: buildStage, whose
\* last statement binds the updateFilter handler and keeps the unbinder in
\* unsub; a rejection is passed on.
BuildStage(i) ==
    /\ effects[i].outer \in Settled
    /\ effects[i].built = "pending"
    /\ IF effects[i].outer = "fulfilled"
       THEN /\ effects' = [effects EXCEPT ![i].built = "fulfilled",
                                          ![i].unsub = "unbind"]
            /\ handlers' = handlers \cup {i}
       ELSE /\ effects' = [effects EXCEPT ![i].built = "rejected"]
            /\ UNCHANGED handlers
    /\ UNCHANGED children
    /\ UNCHANGED appOthers

\* The reaction of the second then: app.render(), dom.appendChild(app.canvas),
\* appInitialized = true; a rejection is passed on.
Show(i) ==
    /\ effects[i].built \in Settled
    /\ effects[i].shown = "pending"
    /\ IF effects[i].built = "fulfilled"
       THEN /\ effects' = [effects EXCEPT ![i].shown = "fulfilled",
                                          ![i].appInitialized = TRUE]
            /\ children' = children \cup {i}
       ELSE /\ effects' = [effects EXCEPT ![i].shown = "rejected"]
            /\ UNCHANGED children
    /\ UNCHANGED handlers
    /\ UNCHANGED appOthers

\* The reaction .catch(() => {}): a rejection ends here.
Catch(i) ==
    /\ effects[i].shown \in Settled
    /\ effects[i].caught = "pending"
    /\ effects' = [effects EXCEPT ![i].caught = "fulfilled"]
    /\ UNCHANGED <<children, handlers>>
    /\ UNCHANGED appOthers

\* $.emit("updateFilter", filterParams): every bound handler assigns the
\* parameters to its filter and renders its app.
EmitUpdateFilter ==
    /\ handlers # {}
    /\ effects' = [i \in Runs |->
                      IF i \in handlers
                      THEN [effects[i] EXCEPT !.updated = TRUE]
                      ELSE effects[i]]
    /\ UNCHANGED <<children, handlers>>
    /\ UNCHANGED appOthers

\* The cleanup of the effect: abort.abort() rejects the outer promise if it
\* is pending; unsub() unbinds the handler if buildStage has bound it; the
\* canvas is removed and the app destroyed if appInitialized.
Cleanup(i) ==
    /\ effects[i].pc = "mounted"
    /\ effects' = [effects EXCEPT
                      ![i].pc = "cleaned",
                      ![i].aborted = TRUE,
                      ![i].outer = IF @ = "pending" THEN "rejected" ELSE @,
                      ![i].removed = effects[i].appInitialized,
                      ![i].destroyed = effects[i].appInitialized]
    /\ handlers' = IF effects[i].unsub = "unbind" THEN handlers \ {i} ELSE handlers
    /\ children' = IF effects[i].appInitialized THEN children \ {i} ELSE children
    /\ UNCHANGED appOthers

(***************************************************************************)
(* MotionBlurFilter                                                        *)
(*                                                                         *)
(* The velocity of a filter is an object { x, y } that the uniform         *)
(* uVelocity refers to: the velocity setter stores the reference it is     *)
(* given, the velocityX and velocityY setters write into the object.       *)
(* points is the heap of these objects; points[1] is                       *)
(* DEFAULT_OPTIONS.velocity, the velocity of a filter constructed without  *)
(* one.  A number is q * 2^32 + h / 2, written Halves(q, h), which covers  *)
(* zero, fractions, negative numbers and numbers beyond 32 bits.           *)
(***************************************************************************)
MaxFilters == 2
MaxPoints == 2
FilterIds == 1 .. MaxFilters

Halves(q, h) == [q |-> q, h |-> h]

\* 0, -1.5 and 2^32 + 1
Velocities == {Halves(0, 0), Halves(0, -3), Halves(1, 2)}
KernelSizes == {5, 15}
Offsets == {0, 1}

\* A velocity given to the constructor or to the velocity setter: an object
\* that exists (by reference), or a new object or array of two numbers.
VelocityArgs ==
    [kind : {"new"}, x : Velocities, y : Velocities]
        \cup [kind : {"ref"}, ref : 1 .. MaxPoints + 1]

IsZero(n) == n.q = 0 /\ n.h = 0

\* Math.abs
MathAbs(n) ==
    IF n.q < 0 \/ (n.q = 0 /\ n.h < 0) THEN Halves(0 - n.q, 0 - n.h) ELSE n

\* Math.max
MathMax(a, b) ==
    IF a.q < b.q \/ (a.q = b.q /\ a.h < b.h) THEN b ELSE a

\* n >> 0 for the numbers n = q * 2^32 + h / 2 with |h / 2| < 2^31: the
\* integer part of n modulo 2^32, as a signed 32-bit integer.
ShiftRightByZero(n) ==
    IF n.h >= 0 THEN n.h \div 2 ELSE 0 - ((0 - n.h) \div 2)

\* A filter that is not constructed yet.
NoFilter == [pc |-> "none"]

\* MotionBlurFilter._updateDirty on the filter, with the heap as it is.
UpdateDirty(filter, heap) ==
    LET velocityX == heap[filter.uVelocity].x
        velocityY == heap[filter.uVelocity].y
    IN  [filter EXCEPT
            !.padding = ShiftRightByZero(MathMax(MathAbs(velocityX),
                                                 MathAbs(velocityY))) + 1,
            !.uKernelSize = IF ~IsZero(velocityX) \/ ~IsZero(velocityY)
                            THEN filter.kernelSize
                            ELSE 0]

\* The heap after the velocity argument is turned into a reference.
HeapWith(heap, value) ==
    IF value.kind = "new"
    THEN Append(heap, [x |-> value.x, y |-> value.y])
    ELSE heap

\* The reference the velocity argument stands for.
RefOf(heap, value) ==
    IF value.kind = "new" THEN Len(heap) + 1 ELSE value.ref

\* The velocity argument can be given: a new object needs room in the heap,
\* a reference an object.
Given(heap, value) ==
    IF value.kind = "new" THEN Len(heap) <= MaxPoints ELSE value.ref <= Len(heap)

FilterInit ==
    /\ points = <<[x |-> Halves(0, 0), y |-> Halves(0, 0)]>>
    /\ filters = [f \in FilterIds |-> NoFilter]

\* new MotionBlurFilter({ velocity, kernelSize, offset }): the uniforms are
\* created, then Object.assign(this, options) calls the setters of velocity,
\* kernelSize and offset, in this order.  A velocity that is left out is
\* DEFAULT_OPTIONS.velocity, the reference 1.
Construct(f, velocity, kernelSize, offset) ==
    /\ filters[f] = NoFilter
    /\ \A g \in 1 .. f - 1 : filters[g] # NoFilter
    /\ Given(points, velocity)
    /\ points' = HeapWith(points, velocity)
    /\ filters' = [filters EXCEPT ![f] =
                      UpdateDirty([pc |-> "filter",
                                   uVelocity |-> RefOf(points, velocity),
                                   uKernelSize |-> kernelSize,
                                   uOffset |-> offset,
                                   kernelSize |-> kernelSize,
                                   padding |-> 0],
                                  points')]
    /\ UNCHANGED filterOthers

\* filter.velocity = value
SetVelocity(f, value) ==
    /\ filters[f] # NoFilter
    /\ Given(points, value)
    /\ points' = HeapWith(points, value)
    /\ filters' = [filters EXCEPT ![f] =
                      UpdateDirty([@ EXCEPT !.uVelocity = RefOf(points, value)],
                                  points')]
    /\ UNCHANGED filterOthers

\* filter.velocityX = value
SetVelocityX(f, value) ==
    /\ filters[f] # NoFilter
    /\ points' = [points EXCEPT ![filters[f].uVelocity].x = value]
    /\ filters' = [filters EXCEPT ![f] = UpdateDirty(@, points')]
    /\ UNCHANGED filterOthers

\* filter.velocityY = value
SetVelocityY(f, value) ==
    /\ filters[f] # NoFilter
    /\ points' = [points EXCEPT ![filters[f].uVelocity].y = value]
    /\ filters' = [filters EXCEPT ![f] = UpdateDirty(@, points')]
    /\ UNCHANGED filterOthers

\* filter.kernelSize = value
SetKernelSize(f, value) ==
    /\ filters[f] # NoFilter
    /\ filters' = [filters EXCEPT ![f] =
                      UpdateDirty([@ EXCEPT !.kernelSize = value], points)]
    /\ UNCHANGED points
    /\ UNCHANGED filterOthers

\* filter.offset = value
SetOffset(f, value) ==
    /\ filters[f] # NoFilter
    /\ filters' = [filters EXCEPT ![f].uOffset = value]
    /\ UNCHANGED points
    /\ UNCHANGED filterOthers

(***************************************************************************)
(* Specifications                                                          *)
(***************************************************************************)
MapIdle == MapNew
SearchIdle == search = Idle
TrackerIdle == tracker = Idle /\ check = Idle
ClampIdle == clamp = Idle
RatioIdle == ratio = Idle
AspectIdle == aspect = Idle
FitIdle == fit = Idle
AppIdle == effects = <<>> /\ children = {} /\ handlers = {}
FilterIdle == points = <<>> /\ filters = <<>>

InitMap ==
    /\ MapNew
    /\ SearchIdle /\ TrackerIdle /\ ClampIdle /\ RatioIdle /\ AspectIdle /\ FitIdle /\ AppIdle
    /\ FilterIdle

NextMap ==
    \/ \E key \in Keys, value \in Values : Set(key, value)
    \/ \E targetKey \in Targets : FindNearest(targetKey)
    \/ \E key \in Keys : Has(key)
    \/ Clear

SpecMap == InitMap /\ [][NextMap]_vars

InitSearch ==
    /\ SearchInit
    /\ MapIdle /\ TrackerIdle /\ ClampIdle /\ RatioIdle /\ AspectIdle /\ FitIdle /\ AppIdle
    /\ FilterIdle

NextSearch == BinarySearch

SpecSearch == InitSearch /\ [][NextSearch]_vars

InitTracker ==
    /\ CreateChangeTracker
    /\ MapIdle /\ SearchIdle /\ ClampIdle /\ RatioIdle /\ AspectIdle /\ FitIdle /\ AppIdle
    /\ FilterIdle

NextTracker == \E args \in ArgLists : CheckArgs(args)

SpecTracker == InitTracker /\ [][NextTracker]_vars

InitClamp ==
    /\ ClampInit
    /\ MapIdle /\ SearchIdle /\ TrackerIdle /\ RatioIdle /\ AspectIdle /\ FitIdle /\ AppIdle
    /\ FilterIdle

NextClamp == ClampToRect \/ ClampToRectAgain

SpecClamp == InitClamp /\ [][NextClamp]_vars

InitAspect ==
    /\ AspectInit
    /\ MapIdle /\ SearchIdle /\ TrackerIdle /\ ClampIdle /\ RatioIdle /\ FitIdle /\ AppIdle
    /\ FilterIdle

NextAspect == AspectRatioOf \/ GcdRecurse \/ GcdReturn

SpecAspect == InitAspect /\ [][NextAspect]_vars

InitFit ==
    /\ FitInit
    /\ MapIdle /\ SearchIdle /\ TrackerIdle /\ ClampIdle /\ RatioIdle /\ AspectIdle /\ AppIdle
    /\ FilterIdle

NextFit == ResizeRectToFit

SpecFit == InitFit /\ [][NextFit]_vars

InitRatio ==
    /\ RatioInit
    /\ MapIdle /\ SearchIdle /\ TrackerIdle /\ ClampIdle /\ AspectIdle /\ FitIdle /\ AppIdle
    /\ FilterIdle

NextRatio == CalculateRatioDimensions

SpecRatio == InitRatio /\ [][NextRatio]_vars

InitApp ==
    /\ AppInit
    /\ MapIdle /\ SearchIdle /\ TrackerIdle /\ ClampIdle /\ RatioIdle /\ AspectIdle /\ FitIdle
    /\ FilterIdle

NextApp ==
    \/ \E i \in Runs : Effect(i)
    \/ \E i \in Runs, outcome \in Settled : AppInitSettles(i, outcome)
    \/ \E i \in Runs : Forward(i)
    \/ \E i \in Runs : BuildStage(i)
    \/ \E i \in Runs : Show(i)
    \/ \E i \in Runs : Catch(i)
    \/ EmitUpdateFilter
    \/ \E i \in Runs : Cleanup(i)

SpecApp == InitApp /\ [][NextApp]_vars

InitFilter ==
    /\ FilterInit
    /\ MapIdle /\ SearchIdle /\ TrackerIdle /\ ClampIdle /\ RatioIdle /\ AspectIdle /\ FitIdle
    /\ AppIdle

NextFilter ==
    \/ \E f \in FilterIds, velocity \in VelocityArgs, kernelSize \in KernelSizes,
          offset \in Offsets : Construct(f, velocity, kernelSize, offset)
    \/ \E f \in FilterIds, value \in VelocityArgs : SetVelocity(f, value)
    \/ \E f \in FilterIds, value \in Velocities : SetVelocityX(f, value)
    \/ \E f \in FilterIds, value \in Velocities : SetVelocityY(f, value)
    \/ \E f \in FilterIds, value \in KernelSizes : SetKernelSize(f, value)
    \/ \E f \in FilterIds, value \in Offsets : SetOffset(f, value)

SpecFilter == InitFilter /\ [][NextFilter]_vars

(***************************************************************************)
(* Claims                                                                  *)
(***************************************************************************)
Range(a) == {a[i] : i \in 1 .. Len(a)}

Max(S) == CHOOSE x \in S : \A y \in S : y <= x

\* C1: the key sequence of a SortedMap holds exactly the keys of the mapping,
\* each once, in strictly ascending order, after any sequence of set and
\* clear calls.
C1_SortedKeysInvariant ==
    /\ Range(sortedKeys) = DOMAIN map
    /\ Len(sortedKeys) = Cardinality(DOMAIN map)
    /\ \A i \in 1 .. Len(sortedKeys) - 1 : sortedKeys[i] < sortedKeys[i + 1]

\* A set of a new key that is smaller than two keys already there.
C1_Witness ==
    /\ call.op = "set"
    /\ Len(sortedKeys) >= 3
    /\ call.key = sortedKeys[1]

\* The value under the greatest key <= t, undefined when there is no such key.
FloorValue(m, t) ==
    LET below == {k \in DOMAIN m : k <= t}
    IN  IF below = {} THEN undefined ELSE ValueOf(m[Max(below)])

\* C2: findNearest(t) returns the value stored under the greatest key <= t,
\* and undefined when the map is empty or t is smaller than every key.
C2_FindNearestIsFloor ==
    call.op = "findNearest" => ret = FloorValue(map, call.key)

\* findNearest of a target that is no key and lies between two keys.
C2_Witness ==
    /\ call.op = "findNearest"
    /\ call.key \notin DOMAIN map
    /\ \E k \in DOMAIN map : k < call.key
    /\ \E k \in DOMAIN map : k > call.key
    /\ ret # undefined

DefaultBounds == search.low = undefined /\ search.high = undefined

\* C3: with default bounds on a strictly ascending sequence, binarySearch
\* returns an index of the needle when it is present, and otherwise ~p where
\* p is the number of elements smaller than the needle.
C3_BinarySearchResult ==
    (search.pc = "done" /\ DefaultBounds) =>
        LET h == search.haystack
            p == Cardinality({i \in 1 .. Len(h) : h[i] < search.needle})
        IN  /\ search.out.kind = "return"
            /\ search.needle \in Range(h) =>
                   /\ search.out.value \in 0 .. Len(h) - 1
                   /\ h[search.out.value + 1] = search.needle
            /\ search.needle \notin Range(h) => search.out.value = -(p + 1)

\* binarySearch([1, 3, 5, 7], 4, (a, b) => a - b) == ~2
C3_Witness ==
    /\ search.pc = "done"
    /\ DefaultBounds
    /\ search.haystack = <<1, 3, 5, 7>>
    /\ search.needle = 4
    /\ search.out = Returned(-3, 2)

\* What deep equality sees of an argument: its content, not its identity.
Content(v) == IF v.type = "object" THEN [x |-> v.x] ELSE [n |-> v.n]

SameContent(a, b) ==
    [i \in DOMAIN a.items |-> Content(a.items[i])] =
    [i \in DOMAIN b.items |-> Content(b.items[i])]

C6_Idempotent ==
    clamp.pc = "twice" => clamp.twice = clamp.once

\* C6, amended: clampToRect is idempotent for every Point and every Rect
\* whose width and height are not negative.
C6_IdempotentOnProperRect ==
    (clamp.pc = "twice" /\ clamp.rect.width >= 0 /\ clamp.rect.height >= 0) =>
        clamp.twice = clamp.once

\* A point outside of a proper rectangle, moved on both axes by the clamp.
C6_Witness ==
    /\ clamp.pc = "twice"
    /\ clamp.rect.width > 0 /\ clamp.rect.height > 0
    /\ clamp.once.x # clamp.a.x /\ clamp.once.y # clamp.a.y
    /\ clamp.twice = clamp.once

Divides(d, n) == n % d = 0

Coprime(m, n) == \A d \in 2 .. m : ~(Divides(d, m) /\ Divides(d, n))

\* C9: for positive integers, aspectRatioOf(width, height) returns [w, h]
\* with w * height = h * width and gcd(w, h) = 1, and the gcd recursion
\* terminates: the second argument decreases with every call (at most height
\* recursive calls), and a step is possible until the result is returned.
C9_AspectRatioInLowestTerms ==
    /\ aspect.pc = "gcd" =>
           /\ aspect.b >= 0
           /\ aspect.b + aspect.depth <= aspect.height
    /\ aspect.pc \in {"call", "gcd"} => ENABLED NextAspect
    /\ aspect.pc = "done" =>
           LET w == aspect.result[1]
               h == aspect.result[2]
           IN  /\ w * aspect.divisor = aspect.width
               /\ h * aspect.divisor = aspect.height
               /\ w * aspect.height = h * aspect.width
               /\ w >= 1 /\ h >= 1
               /\ Coprime(w, h)

\* aspectRatioOf(1920, 1080) == [16, 9]
C9_Witness ==
    /\ aspect.pc = "done"
    /\ aspect.width = 1920 /\ aspect.height = 1080
    /\ aspect.result = <<16, 9>>

\* x * m = y * n exactly, for positive finite doubles x, y and small
\* integers m, n.
SameProduct(x, m, y, n) ==
    LET a == NatMul(x.m, NatOf(m))
        b == NatMul(y.m, NatOf(n))
    IN  IF x.e >= y.e THEN ShiftLeft(a, x.e - y.e) = b
        ELSE a = ShiftLeft(b, y.e - x.e)

\* The result of resizeRectToFit lies inside the target, touches it on at
\* least one axis and has the aspect ratio of rect.
FitsTarget ==
    LET width == fit.result.width
        height == fit.result.height
        targetWidth == FromInt(fit.rect2.width)
        targetHeight == FromInt(fit.rect2.height)
    IN  /\ ~FLess(targetWidth, width)
        /\ ~FLess(targetHeight, height)
        /\ width = targetWidth \/ height = targetHeight
        /\ SameProduct(width, fit.rect1.height, height, fit.rect1.width)

\* C10, as claimed: for positive dimensions the Dimension resizeRectToFit
\* returns lies inside target, has the aspect ratio of rect and touches
\* target on at least one axis.
C10_FitsTarget ==
    fit.pc = "done" => FitsTarget

\* The double x is within a relative error of 2^-51 of the fraction p / q
\* (p, q positive integers): what two roundings to nearest can add up to.
WithinRounding(x, p, q) ==
    LET a == IF x.e >= 0 THEN ShiftLeft(NatMul(x.m, NatOf(q)), x.e)
             ELSE NatMul(x.m, NatOf(q))
        b == IF x.e >= 0 THEN NatOf(p) ELSE ShiftLeft(NatOf(p), 0 - x.e)
        error == IF NatLess(a, b) THEN NatSub(b, a) ELSE NatSub(a, b)
    IN  /\ x.kind = "finite"
        /\ ~NatLess(b, ShiftLeft(error, Precision - 2))

\* C10, amended: for positive dimensions the Dimension resizeRectToFit
\* returns is the largest uniform scaling of rect that fits target up to the
\* rounding of its arithmetic: its width and its height are each within a
\* relative error of 2^-51 of the exact ones, and when none of its two
\* divisions and two multiplications rounds it lies inside target, has the
\* aspect ratio of rect and touches target on at least one axis.
C10_FitsTargetUpToRounding ==
    fit.pc = "done" =>
        LET rect == fit.rect1
            target == fit.rect2
            byWidth == target.width * rect.height <= target.height * rect.width
        IN  /\ WithinRounding(fit.result.width,
                              IF byWidth THEN target.width
                              ELSE rect.width * target.height,
                              IF byWidth THEN 1 ELSE rect.height)
            /\ WithinRounding(fit.result.height,
                              IF byWidth THEN rect.height * target.width
                              ELSE target.height,
                              IF byWidth THEN rect.width ELSE 1)
            /\ ~fit.inexact => FitsTarget

\* resizeRectToFit({ width: 200, height: 100 }, { width: 100, height: 100 })
\* is { width: 100, height: 50 }.
C10_Witness ==
    /\ fit.pc = "done"
    /\ ~fit.inexact
    /\ fit.rect1 = [width |-> 200, height |-> 100]
    /\ fit.rect2 = [width |-> 100, height |-> 100]
    /\ fit.result = [width |-> FromInt(100), height |-> FromInt(50)]

\* C7: calculateRatioDimensions accepts a ratio string exactly when it has
\* two colon-separated parts, and fails with the format error otherwise;
\* when it succeeds it returns resizeRectToFitAspectRatio({ width, height },
\* a / b).
C7_ExactlyTwoParts ==
    ratio.pc = "done" =>
        LET str == ratio.aspectRatio
            colons == {i \in 1 .. Len(str) : str[i] = ":"}
        IN  /\ ratio.out.kind = "return" <=> Cardinality(colons) = 1
            /\ ratio.out.kind = "Error" <=> Cardinality(colons) # 1
            /\ ratio.out.kind = "return" =>
                   LET colon == CHOOSE i \in colons : \A j \in colons : i <= j
                       a == Number(SubSeq(str, 1, colon - 1))
                       rest == SubSeq(str, colon + 1, Len(str))
                       b == Number(IF \E j \in colons : j > colon
                                   THEN SubSeq(str, colon + 1,
                                               (CHOOSE j \in colons : j > colon
                                                   /\ \A k \in colons : k > colon => j <= k) - 1)
                                   ELSE rest)
                   IN  ratio.out.value =
                           resizeRectToFitAspectRatio(
                               [width |-> FromInt(ratio.width),
                                height |-> FromInt(ratio.height)],
                               FDiv(a, b).v)

\* The order of the numbers Num(q, r).
NumLess(a, b) == a.q < b.q \/ (a.q = b.q /\ a.r < b.r)

\* n is in [0, length)
InRange(n, length) == n.q = 0 /\ n.r >= 0 /\ n.r < length

\* C5: binarySearch fails with a range error, without invoking the comparator,
\* whenever an explicit low is outside [0, length), or an explicit high is
\* outside [0, length) or smaller than low; explicit bounds with
\* 0 <= low <= high < length raise no error.
C5_RangeErrorOnInvalidBounds ==
    search.pc = "done" =>
        LET length == Len(search.haystack)
            low == search.low
            high == search.high
            lowBad == low # undefined /\ ~InRange(low, length)
            highBad == high # undefined /\
                          (\/ ~InRange(high, length)
                           \/ low # undefined /\ NumLess(high, low))
        IN  /\ (lowBad \/ highBad) =>
                   search.out.kind = "RangeError" /\ search.out.cmps = 0
            /\ (low # undefined /\ high # undefined /\ ~lowBad /\ ~highBad) =>
                   search.out.kind = "return"

\* C11: a set of a key that is present changes only the value under that
\* key, the key sequence and the values under all other keys stay as they
\* are; a set of a new key adds exactly that key and changes the value under
\* no other key; clear leaves the mapping and the key sequence empty, so
\* that has(k) is false and findNearest(k) is undefined for every k.
C11_SetAndClearFrame ==
    [][/\ call'.op = "set" =>
             LET key == call'.key
             IN  /\ DOMAIN map' = DOMAIN map \cup {key}
                 /\ map'[key] = call'.value
                 /\ \A k \in DOMAIN map \ {key} : map'[k] = map[k]
                 /\ key \in DOMAIN map => sortedKeys' = sortedKeys
                 /\ key \notin DOMAIN map =>
                        /\ Len(sortedKeys') = Len(sortedKeys) + 1
                        /\ \E i \in 1 .. Len(sortedKeys') :
                               /\ sortedKeys'[i] = key
                               /\ sortedKeys = SubSeq(sortedKeys', 1, i - 1) \o
                                               SubSeq(sortedKeys', i + 1, Len(sortedKeys'))
       /\ call'.op = "clear" =>
             /\ map' = EmptyMap
             /\ sortedKeys' = <<>>
             /\ \A k \in Targets :
                    /\ k \notin DOMAIN map'
                    /\ findNearest(map', sortedKeys', k) = undefined
      ]_vars

\* A set that has stored "b" under a key of a map that holds "a" under a
\* smaller and under a greater key.
C11_Witness ==
    /\ call.op = "set"
    /\ call.value = "b"
    /\ map[call.key] = "b"
    /\ \E k \in DOMAIN map : k < call.key /\ map[k] = "a"
    /\ \E k \in DOMAIN map : k > call.key /\ map[k] = "a"

\* C12: once the cleanup of a run of the effect has run, its canvas is not a
\* child of the container and its updateFilter handler is not bound on the
\* bus, in every interleaving of the settling of app.init, the reactions of
\* the promise chain and the cleanup; and the cleanup removes the canvas and
\* destroys the app only if the canvas was appended (appInitialized is true).
C12_NothingLeftAfterCleanup ==
    \A i \in Runs :
        /\ effects[i].pc = "cleaned" => i \notin children /\ i \notin handlers
        /\ (effects[i].removed \/ effects[i].destroyed) => effects[i].appInitialized

\* The integer part of a number that is not negative.
Trunc(n) == Halves(n.q, 2 * (n.h \div 2))

\* The uniforms and the padding of the filter agree with its velocity and
\* its kernelSize.
Consistent(filter) ==
    LET velocityX == points[filter.uVelocity].x
        velocityY == points[filter.uVelocity].y
        greatest == Trunc(MathMax(MathAbs(velocityX), MathAbs(velocityY)))
    IN  /\ filter.uKernelSize = IF IsZero(velocityX) /\ IsZero(velocityY)
                                THEN 0
                                ELSE filter.kernelSize
        /\ Halves(0, 2 * (filter.padding - 1)) = greatest

\* C13: after its construction and after any sequence of assignments through
\* the setters velocity, velocityX, velocityY, kernelSize and offset, the
\* uniform uKernelSize of a MotionBlurFilter is 0 when velocityX and
\* velocityY are 0 and the kernelSize last assigned otherwise, and its
\* padding is trunc(max(|velocityX|, |velocityY|)) + 1; an assignment to
\* offset changes uOffset only.
C13_UniformsConsistent ==
    /\ [](\A f \in FilterIds : filters[f] # NoFilter => Consistent(filters[f]))
    /\ [][\A f \in FilterIds :
              (filters[f] # NoFilter /\ filters'[f].uOffset # filters[f].uOffset) =>
                  /\ points' = points
                  /\ filters' = [filters EXCEPT ![f].uOffset = filters'[f].uOffset]
         ]_vars

=============================================================================
